---- MODULE Spec2Model ----
(***************************************************************************)
(* fMP4 segment demultiplexer: SegmentParser::parse_segment and the        *)
(* sample extractor and keyframe classifier it drives                      *)
(* (fmp4_demuxer_lib/src/lib.rs; ermis_call_node_binding/src/lib.rs holds  *)
(* the same three functions).                                              *)
(*                                                                         *)
(* The payload is revealed box by box as Any::read_from decodes it and is  *)
(* recorded in the history variable payload.  usize is taken to be 64 bits *)
(* wide; the sizes and lengths of the model stay far below 2^31.           *)
(* An addition that overflows u64 panics in a build with overflow checks    *)
(* (the dev profile) and wraps in one without (the release profile).        *)
(* A call that runs concurrently with the current one is kept, while it    *)
(* does not run, as the record other of its locals.                        *)
(***************************************************************************)
EXTENDS Integers, Sequences, FiniteSets, TLC

\* ------------------------------------------------------------------ bounds
MaxBoxes == 4
MaxTrafs == 2
MaxUnits == 2
MaxNalLen == 2
MaxSampleLen == 16
MaxConcBoxes == 2

\* ------------------------------------------------------------ Option<T>
None == <<>>
Some(x) == <<x>>
unwrap(o) == o[1]
unwrap_or(o, d) == IF o = <<>> THEN d ELSE o[1]

\* --------------------------------------------- u32 / u64 as 16-bit limbs
\* TLC integers are 32 bits wide, so a u64 is four little-endian 16-bit
\* limbs and a u32 the two low ones.
Limb == 65536
U64(n) == <<n % Limb, n \div Limb, 0, 0>>
\* accumulated_time + x as u64, for a u32 x below 2^31 (wrapping at 2^64)
add_u64(a, x) ==
  LET s1 == a[1] + (x % Limb)
      s2 == a[2] + (x \div Limb) + (s1 \div Limb)
      s3 == a[3] + (s2 \div Limb)
      s4 == a[4] + (s3 \div Limb)
  IN  <<s1 % Limb, s2 % Limb, s3 % Limb, s4 % Limb>>
\* a + x as u64 does not fit in 64 bits
carries_u64(a, x) ==
  LET s1 == a[1] + (x % Limb)
      s2 == a[2] + (x \div Limb) + (s1 \div Limb)
      s3 == a[3] + (s2 \div Limb)
      s4 == a[4] + (s3 \div Limb)
  IN  s4 >= Limb
\* (v as u32): the low 32 bits
as_u32_clamped(a) ==
  IF a[3] # 0 \/ a[4] # 0 THEN <<Limb - 1, Limb - 1>> ELSE <<a[1], a[2]>>
as_u32(a) == <<a[1], a[2]>>

\* ------------------------------------------------------- box structures
DemuxedFrame(d, ts, dur, kf) ==
  [data |-> d, timestamp |-> ts, duration |-> dur, is_keyframe |-> kf]
TrunEntry(sz, dur, c) == [size |-> sz, duration |-> dur, cts |-> c]
Trun(off, es) == [data_offset |-> off, entries |-> es]
Traf(id, dss, base, truns) ==
  [track_id |-> id, default_sample_size |-> dss, tfdt |-> base, trun |-> truns]
Moof(trafs) == [traf |-> trafs]
MoofBox(m) == [type |-> "moof", moof |-> m]
MdatBox(d) == [type |-> "mdat", data |-> d]
OtherBox == [type |-> "other"]

\* ---------------------------------------------------------- sample bytes
\* u32::from_be_bytes, for a first byte below 128
u32_from_be_bytes(b0, b1, b2, b3) == ((b0 * 256 + b1) * 256 + b2) * 256 + b3
\* one length-prefixed NAL unit: 4-byte big-endian length, then the bytes
NalUnit(bytes) == <<0, 0, 0, Len(bytes)>> \o bytes
\* 0x01: H.264 type 1 (slice), H.265 type 0 (slice)
\* 0x27: H.264 type 7 (SPS), H.265 type 19 (IDR_W_RADL)
\* 0x65: H.264 type 5 (IDR), H.265 type 50
NalBytes == {1, 39, 101}
RECURSIVE SeqsUpTo(_, _)
SeqsUpTo(S, n) ==
  IF n = 0 THEN {<<>>}
  ELSE LET R == SeqsUpTo(S, n - 1)
       IN  R \cup {Append(r, x) : r \in {q \in R : Len(q) = n - 1}, x \in S}
NalUnits == {NalUnit(p) : p \in SeqsUpTo(NalBytes, MaxNalLen)}
\* what may follow the complete units of a sample: nothing, bytes too few
\* for a length prefix, or a unit cut short of its declared length
Tails ==
  {<<>>, <<0>>, <<0, 0, 1>>, <<0, 0, 0, 1>>, <<1, 0, 0, 0>>}
  \cup {<<0, 0, 0, 2, b>> : b \in NalBytes}
\* the byte strings made of up to n complete units
RECURSIVE UnitStrings(_)
UnitStrings(n) ==
  IF n = 0 THEN {<<>>}
  ELSE LET R == UnitStrings(n - 1)
       IN  R \cup {s \in {r \o u : r \in R, u \in NalUnits} : Len(s) <= MaxSampleLen}
Samples ==
  {s \in {us \o t : us \in UnitStrings(MaxUnits), t \in Tails} :
     Len(s) <= MaxSampleLen}

\* ------------------------------------------------- the inputs of the model
idr == NalUnit(<<101>>)
slice == NalUnit(<<1>>)
\* track fragments: one of each shape the extractor distinguishes
tV5 == Traf(1, None, None, <<Trun(None, <<TrunEntry(Some(5), Some(3), None)>>)>>)
tVdef ==
  Traf(1, Some(5), Some(U64(100)),
       <<Trun(Some(8), <<TrunEntry(None, Some(3), Some(2)),
                         TrunEntry(None, None, None)>>)>>)
tA5 == Traf(2, None, None, <<Trun(None, <<TrunEntry(Some(5), None, None)>>)>>)
tA3 ==
  Traf(3, Some(9), Some(<<65534, 65535, 1, 0>>),
       <<Trun(None, <<TrunEntry(Some(2), Some(4), None),
                      TrunEntry(Some(3), Some(4), Some(1))>>)>>)
tZero ==
  Traf(2, None, None,
       <<Trun(None, <<TrunEntry(None, None, Some(7)),
                      TrunEntry(None, Some(2), None)>>)>>)
tBig ==
  Traf(1, None, None,
       <<Trun(None, <<TrunEntry(Some(5), Some(3), None),
                      TrunEntry(Some(6), Some(3), None)>>)>>)
tEmpty == Traf(1, Some(5), None, <<Trun(None, <<>>)>>)
tNoTrun == Traf(2, Some(5), None, <<>>)
tTwoRuns ==
  Traf(2, None, None,
       <<Trun(None, <<TrunEntry(Some(1), Some(2), None)>>),
         Trun(Some(0), <<TrunEntry(Some(1), Some(2), None),
                         TrunEntry(Some(1), Some(2), None)>>)>>)
\* decode times within reach of 2^64: the second duration of tHugeV and the
\* first of tHugeA overflow at line 134, the composition offset of tHugeC
\* overflows at line 91
tHugeV ==
  Traf(1, None, Some(<<65534, 65535, 65535, 65535>>),
       <<Trun(None, <<TrunEntry(Some(0), Some(1), Some(1)),
                      TrunEntry(Some(0), Some(1), None)>>)>>)
tHugeA ==
  Traf(2, None, Some(<<65535, 65535, 65535, 65535>>),
       <<Trun(None, <<TrunEntry(Some(0), Some(1), None),
                      TrunEntry(Some(0), None, Some(1))>>)>>)
tHugeC ==
  Traf(2, None, Some(<<65535, 65535, 65535, 65535>>),
       <<Trun(None, <<TrunEntry(Some(0), None, Some(1))>>)>>)
Trafs ==
  {tV5, tVdef, tA5, tA3, tZero, tBig, tEmpty, tNoTrun, tTwoRuns,
   tHugeV, tHugeA, tHugeC}

\* payloads of any box order (mode "scan"): a few fragment headers
ScanMoofs ==
  {Moof(<<tV5>>), Moof(<<tA5, tV5>>), Moof(<<tA5, tBig>>), Moof(<<tV5, tEmpty>>),
   Moof(<<tNoTrun>>), Moof(<<tTwoRuns>>), Moof(<<>>), Moof(<<tVdef>>)}
ScanMdats == {<<>>, idr, idr \o slice}
\* one fragment (mode "pair"): every fragment header of up to MaxTrafs
\* track fragments
PairMoofs == {Moof(ts) : ts \in SeqsUpTo(Trafs, MaxTrafs)}
PairMdats == {<<>>, idr, idr \o slice, idr \o slice \o <<9, 8, 7>>}
\* one video sample (mode "sample"): a fragment header declaring one video
\* sample of n bytes, then the sample as the whole mdat
SampleMoof(n) ==
  Moof(<<Traf(1, None, None, <<Trun(None, <<TrunEntry(Some(n), None, None)>>)>>)>>)

\* two calls at once (mode "conc"): payloads of up to MaxConcBoxes boxes
ConcMoofs == {Moof(<<tA5, tV5>>), Moof(<<tNoTrun>>)}
ConcMdats == {idr, idr \o slice}

\* --------------------------------------------------------------- results
Running == [tag |-> "Running"]
Ok(v, a) == [tag |-> "Ok", video_frames |-> v, audio_frames |-> a]
Err(m) == [tag |-> "Err", msg |-> m]
Panic(m) == [tag |-> "Panic", msg |-> m]

VARIABLES
  hevc,              \* SegmentParser.hevc
  overflow_checks,   \* the build panics on integer overflow instead of wrapping
  mode,              \* which payloads this run draws from
  call,              \* 1: first parse_segment call, 2: a second one on the same bytes
  replay,            \* the payload the second call reads
  first_result,      \* what the first call returned
  other,             \* the locals of the call suspended while this one runs
  preempted,         \* a call was suspended between two steps of its extractor
  payload,           \* the boxes read_from has decoded so far in this call
  ending,            \* why read_from failed at last: "eof" or "malformed"
  pc,
  current_moof, video_frames, audio_frames,   \* locals of parse_segment
  result,                                     \* what parse_segment returned
  moof, mdat_data, ti, data_offset,           \* extract_frames_from_mdat_enhanced
  ei, sample_offset, accumulated_time,        \*   ... its per-traf locals
  sample_data, is_keyframe,                   \*   ... its per-entry locals
  offset, found_slice                         \* locals of is_keyframe_sample

vars ==
  <<hevc, overflow_checks, mode, call, replay, first_result, other, preempted,
    payload, ending, pc, current_moof, video_frames, audio_frames, result, moof, mdat_data, ti,
    data_offset, ei, sample_offset, accumulated_time, sample_data, is_keyframe,
    offset, found_slice>>

parse_vars == <<current_moof, video_frames, audio_frames>>
extract_vars == <<moof, mdat_data, ti, data_offset>>
traf_vars == <<ei, sample_offset, accumulated_time>>
entry_vars == <<sample_data, is_keyframe>>
nal_vars == <<offset, found_slice>>
run_vars ==
  <<hevc, overflow_checks, mode, call, replay, first_result, other, preempted>>

\* SegmentParser::new(hevc), then parse_segment entered: lines 29-32
InitCall ==
  /\ payload = <<>>
  /\ ending = "none"
  /\ pc = "scan"
  /\ current_moof = None
  /\ video_frames = <<>>
  /\ audio_frames = <<>>
  /\ result = Running
  /\ moof = Moof(<<>>)
  /\ mdat_data = <<>>
  /\ ti = 0
  /\ data_offset = 0
  /\ ei = 0
  /\ sample_offset = 0
  /\ accumulated_time = U64(0)
  /\ sample_data = <<>>
  /\ is_keyframe = FALSE
  /\ offset = 0
  /\ found_slice = FALSE

\* no other call is in progress
NoCall == [pc |-> "none"]
\* everything a call owns: the locals of parse_segment and of the functions
\* it calls (lines 29-32, 68, 80-83, 107-114, 145-146) and its payload
Locals ==
  [call |-> call, replay |-> replay, first_result |-> first_result,
   payload |-> payload, ending |-> ending, pc |-> pc,
   current_moof |-> current_moof, video_frames |-> video_frames,
   audio_frames |-> audio_frames, result |-> result, moof |-> moof,
   mdat_data |-> mdat_data, ti |-> ti, data_offset |-> data_offset, ei |-> ei,
   sample_offset |-> sample_offset, accumulated_time |-> accumulated_time,
   sample_data |-> sample_data, is_keyframe |-> is_keyframe,
   offset |-> offset, found_slice |-> found_slice]

\* the builds told apart in mode m: only the payloads of mode "pair" hold a
\* decode time within 2^32 of 2^64, elsewhere no addition overflows and the
\* two builds take the same steps
Builds(m) == IF m = "pair" THEN BOOLEAN ELSE {FALSE}

InitMode(m) ==
  /\ hevc \in BOOLEAN
  /\ overflow_checks \in Builds(m)
  /\ mode = m
  /\ call = 1
  /\ replay = <<>>
  /\ first_result = Running
  /\ InitCall
  /\ other = NoCall
  /\ preempted = FALSE

Init == InitMode("scan")
InitPair == InitMode("pair")
InitSample == InitMode("sample")
\* two calls of parse_segment have been entered on one parser
InitConc ==
  /\ hevc \in BOOLEAN
  /\ overflow_checks \in Builds("conc")
  /\ mode = "conc"
  /\ call = 1
  /\ replay = <<>>
  /\ first_result = Running
  /\ InitCall
  /\ other = Locals
  /\ preempted = FALSE
\* is_keyframe_sample(sample) is called by itself (it is pub): lines 144-146
InitClassify ==
  /\ hevc \in BOOLEAN
  /\ overflow_checks \in Builds("classify")
  /\ mode = "classify"
  /\ call = 1
  /\ replay = <<>>
  /\ first_result = Running
  /\ other = NoCall
  /\ preempted = FALSE
  /\ payload = <<>>
  /\ ending = "none"
  /\ pc = "nal"
  /\ current_moof = None
  /\ video_frames = <<>>
  /\ audio_frames = <<>>
  /\ result = Running
  /\ moof = Moof(<<>>)
  /\ mdat_data = <<>>
  /\ ti = 0
  /\ data_offset = 0
  /\ ei = 0
  /\ sample_offset = 0
  /\ accumulated_time = U64(0)
  /\ sample_data \in Samples
  /\ is_keyframe = FALSE
  /\ offset = 0
  /\ found_slice = FALSE

\* ------------------------------------------------------------ the payload
ScanBoxes ==
  {MoofBox(m) : m \in ScanMoofs} \cup {MdatBox(d) : d \in ScanMdats} \cup {OtherBox}
ConcBoxes ==
  {MoofBox(m) : m \in ConcMoofs} \cup {MdatBox(d) : d \in ConcMdats} \cup {OtherBox}
SampleLens == {Len(s) : s \in Samples}
FirstMoofs ==
  IF mode = "pair" THEN {MoofBox(m) : m \in PairMoofs}
  ELSE {MoofBox(SampleMoof(n)) : n \in SampleLens}
MdatsFor(m) ==
  IF mode = "pair" THEN {MdatBox(d) : d \in PairMdats}
  ELSE {MdatBox(s) : s \in {x \in Samples :
                              Some(Len(x)) = m.traf[1].trun[1].entries[1].size}}
\* the boxes Any::read_from may decode next from the rest of the payload
NextBoxes ==
  IF call = 2
    THEN IF Len(payload) < Len(replay) THEN {replay[Len(payload) + 1]} ELSE {}
  ELSE IF mode = "scan"
    THEN IF Len(payload) < MaxBoxes THEN ScanBoxes ELSE {}
  ELSE IF mode = "conc"
    THEN IF Len(payload) < MaxConcBoxes THEN ConcBoxes ELSE {}
  ELSE IF payload = <<>> THEN {OtherBox} \cup FirstMoofs
  ELSE LET last == payload[Len(payload)]
       IN  IF last.type = "other" THEN FirstMoofs
           ELSE IF last.type = "moof" THEN MdatsFor(last.moof)
           ELSE {}

\* ----------------------------------------------------------- parse_segment
\* lines 36-38: a movie-fragment box becomes the pending fragment header
pending_after_moof_keep(cur, m) == IF cur = None THEN Some(m) ELSE cur
pending_after_moof(cur, m) == Some(m)
\* line 40: current_moof.is_none()
is_none_never(o) == FALSE
is_none(o) == o = None
\* line 43: what take() leaves in current_moof
left_by_take_clone(cur) == cur
left_by_take(cur) == None
\* Vec::push
push_front(v, f) == <<f>> \o v
push(v, f) == Append(v, f)

ReadMoof ==
  /\ pc = "scan"
  /\ \E b \in NextBoxes :
       /\ b.type = "moof"
       /\ payload' = Append(payload, b)
       /\ current_moof' = pending_after_moof(current_moof, b.moof)
  /\ UNCHANGED <<run_vars, ending, pc, video_frames, audio_frames, result,
                 extract_vars, traf_vars, entry_vars, nal_vars>>

\* lines 39-50: a media-data box; `continue` without a pending header, else
\* take() the header and enter extract_frames_from_mdat_enhanced (line 68)
ReadMdat ==
  /\ pc = "scan"
  /\ \E b \in NextBoxes :
       /\ b.type = "mdat"
       /\ payload' = Append(payload, b)
       /\ IF is_none(current_moof)
            THEN UNCHANGED <<pc, current_moof, result, extract_vars>>
          ELSE IF current_moof = None
            THEN /\ result' = Panic("called Option::unwrap() on a None value")
                 /\ pc' = "done"
                 /\ UNCHANGED <<current_moof, extract_vars>>
          ELSE /\ moof' = unwrap(current_moof)
               /\ current_moof' = left_by_take(current_moof)
               /\ mdat_data' = b.data
               /\ data_offset' = 0
               /\ ti' = 1
               /\ pc' = "traf"
               /\ UNCHANGED result
  /\ UNCHANGED <<run_vars, ending, video_frames, audio_frames,
                 traf_vars, entry_vars, nal_vars>>

\* line 51: any other box is skipped
ReadOther_clears_pending ==
  /\ pc = "scan"
  /\ \E b \in NextBoxes :
       /\ b.type = "other"
       /\ payload' = Append(payload, b)
  /\ current_moof' = None
  /\ UNCHANGED <<run_vars, ending, pc, video_frames, audio_frames, result,
                 extract_vars, traf_vars, entry_vars, nal_vars>>
ReadOther ==
  /\ pc = "scan"
  /\ \E b \in NextBoxes :
       /\ b.type = "other"
       /\ payload' = Append(payload, b)
  /\ UNCHANGED <<run_vars, ending, pc, parse_vars, result, extract_vars,
                 traf_vars, entry_vars, nal_vars>>

\* lines 55-58: what parse_segment returns once the while-let has ended,
\* whatever made read_from fail
returned_at_end_error_if_malformed(why, v, a) ==
  IF why = "malformed" THEN Err([text |-> "decode failure"]) ELSE Ok(v, a)
returned_at_end(why, v, a) == Ok(v, a)
\* lines 34, 55-58: read_from returns Err (end of buffer or undecodable
\* bytes), the while-let ends and the frames are returned
ReadEnd ==
  /\ pc = "scan"
  /\ IF call = 2
       THEN Len(payload) = Len(replay) /\ UNCHANGED ending
       ELSE ending' \in {"eof", "malformed"}
  /\ result' = returned_at_end(ending', video_frames, audio_frames)
  /\ pc' = "done"
  /\ UNCHANGED <<run_vars, payload, parse_vars, extract_vars, traf_vars,
                 entry_vars, nal_vars>>

\* ------------------------------------- extract_frames_from_mdat_enhanced
is_video_track_not_2(traf) == traf.track_id # 2
is_video_track(traf) == traf.track_id = 1
\* line 86: entry.size.unwrap_or(default_sample_size), line 79
sample_size_explicit_only(entry, traf) == unwrap_or(entry.size, 0)
sample_size(entry, traf) ==
  unwrap_or(entry.size, unwrap_or(traf.default_sample_size, 0))
\* lines 90-94
sample_timestamp(acc, entry) ==
  IF entry.cts # None THEN Some(as_u32(add_u64(acc, unwrap(entry.cts))))
  ELSE Some(as_u32(acc))
\* line 96
exceeds_mdat_size_only(off, size, mdat) == size > Len(mdat)
exceeds_mdat(off, size, mdat) == off + size > Len(mdat)
\* lines 133-135
advance_time_skipped(acc, entry) == acc
advance_time(acc, entry) ==
  IF entry.duration # None THEN add_u64(acc, unwrap(entry.duration)) ELSE acc
\* line 75
run_is_empty(trun) == trun.entries = <<>>
\* line 91: accumulated_time + cts as u64 overflows
timestamp_overflows(acc, entry) ==
  entry.cts # None /\ carries_u64(acc, unwrap(entry.cts))
\* line 134: accumulated_time += duration as u64 overflows
time_overflows(acc, entry) ==
  entry.duration # None /\ carries_u64(acc, unwrap(entry.duration))

\* the ? of line 49 hands an Err of the extractor to the caller of
\* parse_segment; a panic unwinds through it
Return(r) ==
  /\ result' = r
  /\ pc' = "done"

\* lines 70-83 and 141: head of the loop over moof.traf
ExtractTraf ==
  /\ pc = "traf"
  /\ IF ti > Len(moof.traf)
       THEN /\ pc' = "scan"
            /\ UNCHANGED <<result, traf_vars>>
       ELSE LET traf == moof.traf[ti] IN
            IF traf.trun = <<>>
              THEN /\ Return(Panic("index out of bounds"))
                   /\ UNCHANGED traf_vars
            ELSE IF run_is_empty(traf.trun[1])
              THEN /\ Return(Err([text |-> "No entries in TRUN"]))
                   /\ UNCHANGED traf_vars
            ELSE /\ sample_offset' = data_offset
                 /\ accumulated_time' = unwrap_or(traf.tfdt, U64(0))
                 /\ ei' = 1
                 /\ pc' = "entry"
                 /\ UNCHANGED result
  /\ UNCHANGED <<run_vars, payload, ending, parse_vars, extract_vars,
                 entry_vars, nal_vars>>

\* lines 85-107, 122-138: head of the loop over trun.entries; an audio
\* sample is pushed at once, a video sample goes to the classifier first
ExtractEntry ==
  /\ pc = "entry"
  /\ LET traf == moof.traf[ti]
         entries == traf.trun[1].entries
     IN
     IF ei > Len(entries)
       THEN /\ data_offset' = sample_offset
            /\ ti' = ti + 1
            /\ pc' = "traf"
            /\ UNCHANGED <<result, audio_frames, traf_vars, entry_vars, nal_vars>>
       ELSE LET entry == entries[ei]
                size == sample_size(entry, traf)
            IN
            IF overflow_checks /\ timestamp_overflows(accumulated_time, entry)
              THEN /\ Return(Panic("attempt to add with overflow"))
                   /\ UNCHANGED <<audio_frames, ti, data_offset, traf_vars,
                                  entry_vars, nal_vars>>
            ELSE IF exceeds_mdat(sample_offset, size, mdat_data)
              THEN /\ Return(Err([text |-> "exceeds mdat data length",
                                  sample_index |-> ei - 1,
                                  sample_size |-> size,
                                  mdat_len |-> Len(mdat_data)]))
                   /\ UNCHANGED <<audio_frames, ti, data_offset, traf_vars,
                                  entry_vars, nal_vars>>
            ELSE IF sample_offset + size > Len(mdat_data)
              THEN /\ Return(Panic("range end index out of range"))
                   /\ UNCHANGED <<audio_frames, ti, data_offset, traf_vars,
                                  entry_vars, nal_vars>>
            ELSE LET data == SubSeq(mdat_data, sample_offset + 1, sample_offset + size)
                 IN
                 IF is_video_track(traf)
                   THEN /\ sample_data' = data
                        /\ IF Len(data) >= 5
                             THEN /\ pc' = "nal"
                                  /\ offset' = 0
                                  /\ found_slice' = FALSE
                                  /\ UNCHANGED is_keyframe
                             ELSE /\ pc' = "push"
                                  /\ is_keyframe' = FALSE
                                  /\ UNCHANGED nal_vars
                        /\ UNCHANGED <<result, audio_frames, ti, data_offset,
                                       traf_vars>>
                   ELSE /\ audio_frames' =
                             push(audio_frames,
                                  DemuxedFrame(data,
                                               sample_timestamp(accumulated_time, entry),
                                               entry.duration, FALSE))
                        /\ sample_offset' = sample_offset + size
                        /\ IF overflow_checks /\ time_overflows(accumulated_time, entry)
                             THEN /\ Return(Panic("attempt to add with overflow"))
                                  /\ UNCHANGED <<ei, accumulated_time>>
                             ELSE /\ accumulated_time' =
                                       advance_time(accumulated_time, entry)
                                  /\ ei' = ei + 1
                                  /\ UNCHANGED <<pc, result>>
                        /\ UNCHANGED <<ti, data_offset, entry_vars, nal_vars>>
  /\ UNCHANGED <<run_vars, payload, ending, current_moof, video_frames, moof,
                 mdat_data>>

\* lines 116-121, 131-135: the video frame is pushed
PushVideo ==
  /\ pc = "push"
  /\ LET traf == moof.traf[ti]
         entry == traf.trun[1].entries[ei]
     IN
     /\ video_frames' =
          push(video_frames,
               DemuxedFrame(sample_data,
                            sample_timestamp(accumulated_time, entry),
                            entry.duration, is_keyframe))
     /\ sample_offset' = sample_offset + sample_size(entry, traf)
     /\ IF overflow_checks /\ time_overflows(accumulated_time, entry)
          THEN /\ Return(Panic("attempt to add with overflow"))
               /\ UNCHANGED <<ei, accumulated_time>>
          ELSE /\ accumulated_time' = advance_time(accumulated_time, entry)
               /\ ei' = ei + 1
               /\ pc' = "entry"
               /\ UNCHANGED result
  /\ UNCHANGED <<run_vars, payload, ending, current_moof, audio_frames,
                 extract_vars, entry_vars, nal_vars>>

\* ------------------------------------------------------ is_keyframe_sample
\* lines 149-154; sample is 0-indexed in the source
nal_size_at(sample, off) ==
  u32_from_be_bytes(sample[off + 1], sample[off + 2], sample[off + 3], sample[off + 4])
\* line 157: the scan stops at a unit that overruns the sample or is empty
stops_scan_overrun_only(off, nal_size, sample) == off + nal_size > Len(sample)
stops_scan_zero_only(off, nal_size, sample) == nal_size = 0
stops_scan(off, nal_size, sample) == off + nal_size > Len(sample) \/ nal_size = 0
\* line 163
nal_type_h264_mask_3f(b) == b % 64
nal_type_h264(b) == b % 32
\* lines 172-173
nal_type_h265_shift_8(b0, b1) == ((b0 * 256 + b1) \div 256) % 64
nal_type_h265(b0, b1) == ((b0 * 256 + b1) \div 512) % 64
\* lines 165, 176
is_idr_h264(t) == t = 5
is_irap_h265(t) == t \in {19, 20, 21, 16, 17, 18}

\* line 148: the loop goes on while four length bytes are left
has_length_prefix(off, sample) == off + 4 <= Len(sample)
\* line 171: both header bytes lie inside the sample
has_header_h265_first_byte_only(off, sample) == off < Len(sample)
has_header_h265(off, sample) == off + 1 < Len(sample)
\* sample[i] with a 0-based i: the slice index is checked and panics when
\* i is not below sample.len()
in_bounds(i, sample) == i < Len(sample)

\* is_keyframe_sample returns v: to line 111, or to its own caller
ReturnKeyframe(v) ==
  /\ is_keyframe' = v
  /\ pc' = IF mode = "classify" THEN "done" ELSE "push"

\* lines 148-191: one turn of the while loop, or its exit
NalLoop ==
  /\ pc = "nal"
  /\ IF ~has_length_prefix(offset, sample_data)
       THEN /\ ReturnKeyframe(FALSE)
            /\ UNCHANGED <<result, nal_vars>>
     ELSE IF ~in_bounds(offset + 3, sample_data)
       THEN /\ Return(Panic("index out of bounds"))
            /\ UNCHANGED <<is_keyframe, nal_vars>>
       ELSE LET nal_size == nal_size_at(sample_data, offset)
                off == offset + 4
            IN
            IF stops_scan(off, nal_size, sample_data)
              THEN /\ ReturnKeyframe(FALSE)
                   /\ offset' = off
                   /\ UNCHANGED <<result, found_slice>>
            ELSE IF ~hevc
              THEN IF ~in_bounds(off, sample_data)
                     THEN /\ Return(Panic("index out of bounds"))
                          /\ offset' = off
                          /\ UNCHANGED <<is_keyframe, found_slice>>
                   ELSE LET nal_type == nal_type_h264(sample_data[off + 1]) IN
                        IF is_idr_h264(nal_type)
                          THEN /\ ReturnKeyframe(TRUE)
                               /\ offset' = off
                               /\ UNCHANGED <<result, found_slice>>
                          ELSE /\ found_slice' = (found_slice \/ nal_type = 1)
                               /\ offset' = off + nal_size
                               /\ UNCHANGED <<pc, result, is_keyframe>>
            ELSE IF has_header_h265(off, sample_data)
              THEN IF ~in_bounds(off + 1, sample_data)
                     THEN /\ Return(Panic("index out of bounds"))
                          /\ offset' = off
                          /\ UNCHANGED <<is_keyframe, found_slice>>
                   ELSE LET nal_type == nal_type_h265(sample_data[off + 1],
                                                      sample_data[off + 2]) IN
                        IF is_irap_h265(nal_type)
                          THEN /\ ReturnKeyframe(TRUE)
                               /\ offset' = off
                               /\ UNCHANGED <<result, found_slice>>
                          ELSE /\ found_slice' = (found_slice \/ nal_type \in 0..9)
                               /\ offset' = off + nal_size
                               /\ UNCHANGED <<pc, result, is_keyframe>>
            ELSE /\ offset' = off + nal_size
                 /\ UNCHANGED <<pc, result, is_keyframe, found_slice>>
  /\ UNCHANGED <<run_vars, payload, ending, parse_vars, extract_vars, traf_vars,
                 sample_data>>

\* ------------------------------------------ a second call on the same bytes
\* parse_segment(&self, ..) is called again with the payload of the call
\* that has returned; its locals are created anew (lines 29-32)
SecondCall_stale_pending ==
  /\ pc = "done"
  /\ call = 1
  /\ call' = 2
  /\ replay' = payload
  /\ first_result' = result
  /\ payload' = <<>>
  /\ pc' = "scan"
  /\ video_frames' = <<>>
  /\ audio_frames' = <<>>
  /\ result' = Running
  /\ UNCHANGED <<hevc, overflow_checks, mode, other, preempted, ending,
                 current_moof, extract_vars, traf_vars, entry_vars, nal_vars>>
SecondCall ==
  /\ pc = "done"
  /\ call = 1
  /\ call' = 2
  /\ replay' = payload
  /\ first_result' = result
  /\ payload' = <<>>
  /\ pc' = "scan"
  /\ current_moof' = None
  /\ video_frames' = <<>>
  /\ audio_frames' = <<>>
  /\ result' = Running
  /\ UNCHANGED <<hevc, overflow_checks, mode, other, preempted, ending,
                 extract_vars, traf_vars, entry_vars, nal_vars>>

Next ==
  \/ ReadMoof
  \/ ReadMdat
  \/ ReadOther
  \/ ReadEnd
  \/ ExtractTraf
  \/ ExtractEntry
  \/ NalLoop
  \/ PushVideo

NextTwice ==
  \/ Next
  \/ SecondCall

\* the call is inside extract_frames_from_mdat_enhanced
InExtractor == pc \in {"traf", "entry", "nal", "push"}

\* the pending header a call finds in its current_moof when it runs again:
\* its own, a local of parse_segment (line 32)
resumed_pending_shared(cur, own) == cur
resumed_pending(cur, own) == own
\* the scheduler takes the running call off the processor and lets the other
\* call run; hevc belongs to the parser and is shared (lines 19-21)
Switch ==
  /\ mode = "conc"
  /\ \/ other.pc # "done"
     \/ pc = "done" /\ call = 2 /\ other.call = 1
  /\ other' = Locals
  /\ preempted' = (preempted \/ (InExtractor /\ other.payload # <<>>))
  /\ call' = other.call
  /\ replay' = other.replay
  /\ first_result' = other.first_result
  /\ payload' = other.payload
  /\ ending' = other.ending
  /\ pc' = other.pc
  /\ current_moof' = resumed_pending(current_moof, other.current_moof)
  /\ video_frames' = other.video_frames
  /\ audio_frames' = other.audio_frames
  /\ result' = other.result
  /\ moof' = other.moof
  /\ mdat_data' = other.mdat_data
  /\ ti' = other.ti
  /\ data_offset' = other.data_offset
  /\ ei' = other.ei
  /\ sample_offset' = other.sample_offset
  /\ accumulated_time' = other.accumulated_time
  /\ sample_data' = other.sample_data
  /\ is_keyframe' = other.is_keyframe
  /\ offset' = other.offset
  /\ found_slice' = other.found_slice
  /\ UNCHANGED <<hevc, overflow_checks, mode>>
\* once both concurrent calls have returned, the payload of each is parsed
\* again while no other call runs
AloneCall ==
  /\ mode = "conc"
  /\ other.pc = "done"
  /\ SecondCall

NextConc ==
  \/ Next
  \/ Switch
  \/ AloneCall

NextClassify == NalLoop

\* one call, payloads of any box order
Spec == Init /\ [][Next]_vars
\* one call, one fragment with any of the fragment headers
SpecPair == InitPair /\ [][Next]_vars
\* one call, one fragment holding one sample
SpecSample == InitSample /\ [][Next]_vars
\* two calls on the same payload
SpecTwice == Init /\ [][NextTwice]_vars
\* two calls on one parser, their steps interleaved in any order
SpecConc == InitConc /\ [][NextConc]_vars
\* is_keyframe_sample alone, on any sample
SpecClassify == InitClassify /\ [][NextClassify]_vars
\* one call of parse_segment on payloads of any box order, or one call of
\* is_keyframe_sample on any sample; the call runs on its caller's thread
\* and takes its next step whenever it has one
InitLive == Init \/ InitClassify
SpecLive == InitLive /\ [][Next]_vars /\ WF_vars(Next)

\* ===================================================================
\* Reference definitions for the properties: what the payload read so
\* far declares, stated without the scanner's or the extractor's state.
\* ===================================================================
RECURSIVE SumTo(_, _)
SumTo(f, n) == IF n = 0 THEN 0 ELSE f[n] + SumTo(f, n - 1)
RECURSIVE ConcatTo(_, _)
ConcatTo(f, n) == IF n = 0 THEN <<>> ELSE ConcatTo(f, n - 1) \o f[n]

\* the mdat boxes that follow a moof with only other boxes in between
PairedIdx(p) ==
  {j \in 1..Len(p) :
     /\ p[j].type = "mdat"
     /\ \E i \in 1..(j - 1) :
          /\ p[i].type = "moof"
          /\ \A k \in (i + 1)..(j - 1) : p[k].type = "other"}
\* the moof such an mdat is paired with: the latest moof before it
MoofBefore(p, j) ==
  LET i == CHOOSE i \in 1..(j - 1) :
             /\ p[i].type = "moof"
             /\ \A k \in (i + 1)..(j - 1) : p[k].type # "moof"
  IN  p[i].moof
\* the moof boxes read that were replaced by a later moof before any mdat
DroppedIdx(p) ==
  {i \in 1..Len(p) :
     /\ p[i].type = "moof"
     /\ \E j \in (i + 1)..Len(p) :
          /\ p[j].type = "moof"
          /\ \A k \in (i + 1)..(j - 1) : p[k].type = "other"}

FirstRun(t) == t.trun[1].entries
DeclaredSize(t, e) ==
  IF e.size # None THEN e.size[1]
  ELSE IF t.default_sample_size # None THEN t.default_sample_size[1]
  ELSE 0
TrafBytes(t) ==
  SumTo([i \in 1..Len(FirstRun(t)) |-> DeclaredSize(t, FirstRun(t)[i])], Len(FirstRun(t)))
\* bytes of the samples of fragment header m before entry n of track fragment k
BytesBefore(m, k, n) ==
  SumTo([t \in 1..(k - 1) |-> TrafBytes(m.traf[t])], k - 1)
  + SumTo([i \in 1..(n - 1) |-> DeclaredSize(m.traf[k], FirstRun(m.traf[k])[i])], n - 1)
\* durations declared by the entries of the run before entry n
TimeBefore(t, n) ==
  SumTo([i \in 1..(n - 1) |->
           IF FirstRun(t)[i].duration # None THEN FirstRun(t)[i].duration[1] ELSE 0],
        n - 1)
\* (base + d) mod 2^32 in 16-bit limbs, d below 2^30
Low32Plus(base, d) ==
  LET lo == base[1] + (d % Limb)
      hi == base[2] + (d \div Limb) + (lo \div Limb)
  IN  <<lo % Limb, hi % Limb>>
\* data, timestamp and duration of entry n of track fragment k of (m, d)
RefSample(m, d, k, n) ==
  LET t == m.traf[k]
      e == FirstRun(t)[n]
      from == BytesBefore(m, k, n)
      base == IF t.tfdt # None THEN t.tfdt[1] ELSE <<0, 0, 0, 0>>
      cts == IF e.cts # None THEN e.cts[1] ELSE 0
  IN  [data |-> [i \in 1..DeclaredSize(t, e) |-> d[from + i]],
       timestamp |-> <<Low32Plus(base, TimeBefore(t, n) + cts)>>,
       duration |-> e.duration]
\* the samples of the video (v = TRUE) or audio track fragments of (m, d)
RefSamplesOfPair(m, d, v) ==
  ConcatTo([k \in 1..Len(m.traf) |->
              IF (m.traf[k].track_id = 1) = v
                THEN [n \in 1..Len(FirstRun(m.traf[k])) |-> RefSample(m, d, k, n)]
                ELSE <<>>],
           Len(m.traf))
RefSamples(p, v) ==
  ConcatTo([j \in 1..Len(p) |->
              IF j \in PairedIdx(p)
                THEN RefSamplesOfPair(MoofBefore(p, j), p[j].data, v)
                ELSE <<>>],
           Len(p))
\* a frame without its keyframe flag
SampleOf(f) == [data |-> f.data, timestamp |-> f.timestamp, duration |-> f.duration]
SamplesOf(fs) == [i \in 1..Len(fs) |-> SampleOf(fs[i])]

Returned == pc = "done"
Succeeded == pc = "done" /\ result.tag = "Ok"

\* the entry loop stands at an entry whose byte range leaves the mdat
EntryExceeds ==
  /\ pc = "entry"
  /\ ei <= Len(FirstRun(moof.traf[ti]))
  /\ sample_offset + DeclaredSize(moof.traf[ti], FirstRun(moof.traf[ti])[ei])
       > Len(mdat_data)

\* C1: when a run entry has cursor + size greater than the mdat length,
\* parse_segment returns at once with an error value, which holds no frame:
\* the frames pushed before it are not returned.
C1_RangeFailureReturnsNothing ==
  [][EntryExceeds =>
       /\ pc' = "done"
       /\ result'.tag = "Err"
       /\ DOMAIN result' = {"tag", "msg"}]_vars

\* the second entry of a run exceeds the mdat of the second fragment, after
\* an earlier track fragment and an earlier entry gave frames
C1_Witness ==
  /\ Returned
  /\ result.tag = "Err"
  /\ result.msg.text = "exceeds mdat data length"
  /\ result.msg.sample_index = 1
  /\ Cardinality(PairedIdx(payload)) = 2
  /\ Len(video_frames) >= 2
  /\ Len(audio_frames) >= 2

HasEmptyFirstRun(m) ==
  \E k \in 1..Len(m.traf) :
    m.traf[k].trun # <<>> /\ m.traf[k].trun[1].entries = <<>>

\* C2: when a track fragment of a paired moof has a first run with zero
\* entries, parse_segment returns an error, wherever that track fragment
\* stands in the moof.
C2_EmptyRunAlwaysFails ==
  (Returned /\ \E j \in PairedIdx(payload) : HasEmptyFirstRun(MoofBefore(payload, j)))
    => result.tag = "Err"

FirstRunEntries(m) ==
  SumTo([k \in 1..Len(m.traf) |-> Len(FirstRun(m.traf[k]))], Len(m.traf))
AllRunEntries(m) ==
  SumTo([k \in 1..Len(m.traf) |->
           SumTo([r \in 1..Len(m.traf[k].trun) |-> Len(m.traf[k].trun[r].entries)],
                 Len(m.traf[k].trun))],
        Len(m.traf))
\* the sum of Count(m) over the paired fragment headers of the payload
OverPairs(p, Count(_)) ==
  SumTo([j \in 1..Len(p) |->
           IF j \in PairedIdx(p) THEN Count(MoofBefore(p, j)) ELSE 0],
        Len(p))

\* C3 as stated: on success the number of frames is the number of run
\* entries of all track fragments of the paired moofs.
C3_FramesEqualAllRunEntries ==
  Succeeded =>
    Len(result.video_frames) + Len(result.audio_frames)
      = OverPairs(payload, AllRunEntries)

\* C3 amended: on success the number of frames is the number of entries of
\* the first run of every track fragment of the paired moofs.
C3_FramesEqualFirstRunEntries ==
  Succeeded =>
    Len(result.video_frames) + Len(result.audio_frames)
      = OverPairs(payload, FirstRunEntries)

\* two fragments gave frames and one of them has a track fragment that
\* declares a second run
C3_Witness ==
  /\ Succeeded
  /\ Cardinality(PairedIdx(payload)) = 2
  /\ result.video_frames # <<>>
  /\ result.audio_frames # <<>>
  /\ \E j \in PairedIdx(payload) :
       \E k \in 1..Len(MoofBefore(payload, j).traf) :
         Len(MoofBefore(payload, j).traf[k].trun) = 2

\* C4: on success video_frames holds the samples of the video track
\* fragments and audio_frames those of the other track fragments, each in
\* the order pair, track fragment, run entry: none moved, doubled or lost.
C4_FramesInDeclarationOrder ==
  Succeeded =>
    /\ SamplesOf(result.video_frames) = RefSamples(payload, TRUE)
    /\ SamplesOf(result.audio_frames) = RefSamples(payload, FALSE)

\* two fragments gave two different video frames, and audio frames
C4_Witness ==
  /\ Succeeded
  /\ Cardinality(PairedIdx(payload)) = 2
  /\ Len(result.video_frames) = 2
  /\ result.video_frames[1] # result.video_frames[2]
  /\ Len(result.audio_frames) >= 1

\* the fragment header the scanner holds after reading p
PendingOf(p) ==
  LET I == {i \in 1..Len(p) : p[i].type \in {"moof", "mdat"}}
  IN  IF I = {} THEN None
      ELSE LET l == CHOOSE i \in I : \A k \in I : k <= i
           IN  IF p[l].type = "moof" THEN <<p[l].moof>> ELSE None
MoofReadWhilePending ==
  /\ pc = "scan"
  /\ current_moof # None
  /\ Len(payload') = Len(payload) + 1
  /\ payload'[Len(payload')].type = "moof"

\* C5: one moof at most is pending, the latest read since the last mdat;
\* the extractor is given the latest moof before the mdat; reading a moof
\* over a pending one changes neither the frames nor the outcome.
C5_OnlyLatestMoofPending ==
  /\ [](pc = "scan" => current_moof = PendingOf(payload))
  /\ [](InExtractor => moof = MoofBefore(payload, Len(payload)))
  /\ [][MoofReadWhilePending =>
          /\ current_moof' = <<payload'[Len(payload')].moof>>
          /\ video_frames' = video_frames
          /\ audio_frames' = audio_frames
          /\ result' = result
          /\ pc' = "scan"]_vars

\* a moof that would have made the extractor fail was replaced, and the
\* moof after it gave a frame
C5_Witness ==
  /\ Succeeded
  /\ \E i \in DroppedIdx(payload) : payload[i].moof = Moof(<<tNoTrun>>)
  /\ \E i \in DroppedIdx(payload) : payload[i].moof = Moof(<<tV5, tEmpty>>)
  /\ result.video_frames # <<>>

OrphanIdx(p) == {j \in 1..Len(p) : p[j].type = "mdat" /\ j \notin PairedIdx(p)}
MdatReadWhileNonePending ==
  /\ pc = "scan"
  /\ current_moof = None
  /\ Len(payload') = Len(payload) + 1
  /\ payload'[Len(payload')].type = "mdat"

\* C6: an mdat read while no moof is pending adds no frame, does not end
\* the call, and leaves the pending slot empty; the scan goes on.
C6_OrphanMdatSkipped ==
  [][MdatReadWhileNonePending =>
       /\ video_frames' = video_frames
       /\ audio_frames' = audio_frames
       /\ result' = Running
       /\ current_moof' = None
       /\ pc' = "scan"]_vars

\* an mdat with bytes came before any moof, another after the pending moof
\* was consumed, and the fragment between them gave its frame
C6_Witness ==
  /\ Succeeded
  /\ 1 \in OrphanIdx(payload)
  /\ payload[1].data # <<>>
  /\ \E j \in PairedIdx(payload) : j + 1 \in OrphanIdx(payload)
  /\ result.video_frames # <<>>

\* ---------------------------------------------- samples as NAL-unit lists
DeclaredLen(s) == ((s[1] * 256 + s[2]) * 256 + s[3]) * 256 + s[4]
\* s is a sequence of complete units: 4-byte length, then that many bytes
RECURSIVE MadeOfUnits(_)
MadeOfUnits(s) ==
  \/ s = <<>>
  \/ /\ Len(s) >= 4
     /\ 4 + DeclaredLen(s) <= Len(s)
     /\ MadeOfUnits(SubSeq(s, 5 + DeclaredLen(s), Len(s)))
\* the unit payloads of such a sample, in order
RECURSIVE UnitsOf(_)
UnitsOf(s) ==
  IF s = <<>> THEN <<>>
  ELSE <<SubSeq(s, 5, 4 + DeclaredLen(s))>>
         \o UnitsOf(SubSeq(s, 5 + DeclaredLen(s), Len(s)))
H264Type(u) == u[1] % 32
H265Type(u) == ((u[1] * 256 + u[2]) \div 512) % 64
NoEmptyUnitBefore(us, i) == \A k \in 1..(i - 1) : us[k] # <<>>
H264Idr(us, i) == us[i] # <<>> /\ H264Type(us[i]) = 5
H265Irap(us, i) == Len(us[i]) >= 2 /\ H265Type(us[i]) \in 16..21
VideoFramesOfUnits ==
  {i \in 1..Len(result.video_frames) : MadeOfUnits(result.video_frames[i].data)}

\* C7 as stated: in H.264 mode a video sample made of length-prefixed units
\* is a keyframe when one of its units has type 5, whatever precedes that
\* unit, and is not a keyframe when all its units have type 1.
C7_H264KeyframeRule ==
  (Succeeded /\ ~hevc) =>
    \A i \in VideoFramesOfUnits :
      LET f == result.video_frames[i]
          us == UnitsOf(f.data)
      IN  /\ (\E k \in 1..Len(us) : H264Idr(us, k)) => f.is_keyframe
          /\ (\A k \in 1..Len(us) : us[k] # <<>> /\ H264Type(us[k]) = 1)
               => ~f.is_keyframe

\* C7 amended: ... when one of its units has type 5 and no unit before that
\* unit has declared length 0 ...
C7_H264KeyframeRuleNoEmptyUnit ==
  (Succeeded /\ ~hevc) =>
    \A i \in VideoFramesOfUnits :
      LET f == result.video_frames[i]
          us == UnitsOf(f.data)
      IN  /\ (\E k \in 1..Len(us) : H264Idr(us, k) /\ NoEmptyUnitBefore(us, k))
               => f.is_keyframe
          /\ (\A k \in 1..Len(us) : us[k] # <<>> /\ H264Type(us[k]) = 1)
               => ~f.is_keyframe

\* H.264: the type-5 unit is the second unit of the sample, after a
\* two-byte type-1 slice, and the frame is a keyframe
C7_Witness ==
  /\ Succeeded
  /\ ~hevc
  /\ Len(result.video_frames) = 1
  /\ result.video_frames[1].data = NalUnit(<<1, 39>>) \o NalUnit(<<101>>)
  /\ result.video_frames[1].is_keyframe

\* C8 as stated: in H.265 mode a video sample made of length-prefixed units
\* is a keyframe when one of its units has a type in 16..21, wherever that
\* unit stands and whatever precedes it.
C8_H265KeyframeRule ==
  (Succeeded /\ hevc) =>
    \A i \in VideoFramesOfUnits :
      LET f == result.video_frames[i]
          us == UnitsOf(f.data)
      IN  (\E k \in 1..Len(us) : H265Irap(us, k)) => f.is_keyframe

\* C8 amended: ... when one of its units has a type in 16..21 and no unit
\* before that unit has declared length 0 ...
C8_H265KeyframeRuleNoEmptyUnit ==
  (Succeeded /\ hevc) =>
    \A i \in VideoFramesOfUnits :
      LET f == result.video_frames[i]
          us == UnitsOf(f.data)
      IN  (\E k \in 1..Len(us) : H265Irap(us, k) /\ NoEmptyUnitBefore(us, k))
            => f.is_keyframe

\* H.265: the type-19 unit is the second unit of the sample, after an
\* ordinary slice, and the frame is a keyframe
C8_Witness ==
  /\ Succeeded
  /\ hevc
  /\ Len(result.video_frames) = 1
  /\ result.video_frames[1].data = NalUnit(<<1, 1>>) \o NalUnit(<<39, 1>>)
  /\ result.video_frames[1].is_keyframe

\* the bytes mdat[cursor, cursor + size) of the entry being processed
EntryBytes ==
  LET t == moof.traf[ti]
  IN  [i \in 1..DeclaredSize(t, FirstRun(t)[ei]) |-> mdat_data[sample_offset + i]]
Last(q) == q[Len(q)]
AllButLast(q) == SubSeq(q, 1, Len(q) - 1)

\* C9: every sample of a track fragment with track id 1 is appended to
\* video_frames, every sample of any other track fragment to audio_frames
\* with is_keyframe = FALSE, and the frame's data is mdat[cursor, cursor + size).
C9_RoutedByTrackId ==
  [][/\ (video_frames' # video_frames \/ audio_frames' # audio_frames)
          => IF moof.traf[ti].track_id = 1
               THEN /\ audio_frames' = audio_frames
                    /\ video_frames' # <<>>
                    /\ AllButLast(video_frames') = video_frames
                    /\ Last(video_frames').data = EntryBytes
               ELSE /\ video_frames' = video_frames
                    /\ audio_frames' # <<>>
                    /\ AllButLast(audio_frames') = audio_frames
                    /\ Last(audio_frames').data = EntryBytes
                    /\ ~Last(audio_frames').is_keyframe
     /\ (pc \in {"entry", "push"} /\ ei' = ei + 1)
          => Len(video_frames') + Len(audio_frames')
               = Len(video_frames) + Len(audio_frames) + 1]_vars

\* an audio sample whose bytes are an IDR unit was returned as an audio
\* frame, not a keyframe, next to a video frame of the same fragment
C9_Witness ==
  /\ Succeeded
  /\ ~hevc
  /\ Len(result.audio_frames) = 1
  /\ result.audio_frames[1].data = idr
  /\ ~result.audio_frames[1].is_keyframe
  /\ Len(result.video_frames) = 1

\* C10: a second call with the same payload bytes on the same parser
\* returns what the first call returned.
C10_SecondCallSameResult ==
  (call = 2 /\ Returned) => result = first_result

\* the second call returned video and audio frames
C10_Witness ==
  /\ call = 2
  /\ Succeeded
  /\ result.video_frames # <<>>
  /\ result.audio_frames # <<>>
  /\ Cardinality(OrphanIdx(replay)) >= 1
\* C11: two parse_segment calls on one parser, their steps interleaved in
\* any order, each return what the same payload gives when it is parsed
\* with no other call running, and no step of parsing writes hevc.
C11_ConcurrentCallsReturnAsAlone ==
  /\ []((call = 2 /\ pc = "done") => result = first_result)
  /\ []((other.call = 2 /\ other.pc = "done") => other.result = other.first_result)
  /\ []((call = 2 /\ pc # "done") => other.pc = "done")
  /\ [][hevc' = hevc]_vars

\* both calls were suspended inside the extractor, returned different
\* results from different payloads, and each payload parsed alone gave the
\* same result again
C11_Witness ==
  /\ preempted
  /\ call = 2 /\ pc = "done"
  /\ other.call = 2 /\ other.pc = "done"
  /\ replay # other.replay
  /\ result.tag = "Ok" /\ result.video_frames # <<>>
  /\ other.result.tag = "Panic"

\* a frame is pushed for the entry the extractor stands at
FramePushed == video_frames' # video_frames \/ audio_frames' # audio_frames
PushedFrame ==
  IF video_frames' # video_frames THEN Last(video_frames') ELSE Last(audio_frames')

\* C12: inside a pair the cursor is 0 at the first track fragment, is the
\* sum of the sizes (explicit, else the default, else 0) of the samples
\* processed before in the pair, passes unchanged from one track fragment to
\* the next whatever data offset the run declares, and each frame holds
\* mdat[S, S + size) for that sum S, so that the ranges follow each other.
C12_CursorIsSumOfSizesBefore ==
  /\ [](pc \in {"entry", "nal", "push"} => sample_offset = BytesBefore(moof, ti, ei))
  /\ [](pc = "traf" => data_offset = BytesBefore(moof, ti, 1))
  /\ [][(pc = "scan" /\ pc' = "traf") => data_offset' = 0]_vars
  /\ [][(pc = "traf" /\ pc' = "entry") => sample_offset' = data_offset]_vars
  /\ [][FramePushed =>
          LET t == moof.traf[ti]
              S == BytesBefore(moof, ti, ei)
              size == DeclaredSize(t, FirstRun(t)[ei])
          IN  /\ PushedFrame.data = SubSeq(mdat_data, S + 1, S + size)
              /\ sample_offset' = S + size
              /\ S + size <= Len(mdat_data)]_vars

\* the second pair of the payload starts at 0 again, its run declares the
\* data offset 8 and its entries take the default sample size; the first
\* pair carried the cursor from its audio to its video track fragment
C12_Witness ==
  /\ Succeeded
  /\ payload = <<MoofBox(Moof(<<tA5, tV5>>)), MdatBox(idr \o slice),
                 MoofBox(Moof(<<tVdef>>)), MdatBox(idr \o slice)>>
  /\ [i \in 1..3 |-> result.video_frames[i].data] = <<slice, idr, slice>>
  /\ result.audio_frames[1].data = idr

\* base + d as a 64-bit number in 16-bit limbs, d below 2^30
Plus64(base, d) ==
  LET s1 == base[1] + (d % Limb)
      s2 == base[2] + (d \div Limb) + (s1 \div Limb)
      s3 == base[3] + (s2 \div Limb)
      s4 == base[4] + (s3 \div Limb)
  IN  <<s1 % Limb, s2 % Limb, s3 % Limb, s4 % Limb>>
BaseTime(t) == IF t.tfdt # None THEN t.tfdt[1] ELSE <<0, 0, 0, 0>>
\* base decode time plus the durations declared before entry n of the run
AccumulatedBefore(t, n) == Plus64(BaseTime(t), TimeBefore(t, n))
\* that time plus the composition-time offset of entry n, if it has one
TimeOfEntry(t, n) ==
  Plus64(AccumulatedBefore(t, n),
         IF FirstRun(t)[n].cts # None THEN FirstRun(t)[n].cts[1] ELSE 0)
AccumulatedIsBasePlusDurations ==
  pc \in {"entry", "nal", "push"}
    => accumulated_time = AccumulatedBefore(moof.traf[ti], ei)

\* C13 as stated: the timestamp of every frame is the number base decode
\* time + earlier durations + composition-time offset, and its duration
\* the entry's.
C13_TimestampIsAccumulatedPlusCts ==
  /\ []AccumulatedIsBasePlusDurations
  /\ [][FramePushed =>
          LET sum == TimeOfEntry(moof.traf[ti], ei)
              ts == PushedFrame.timestamp
          IN  /\ ts # None
              /\ <<ts[1][1], ts[1][2], 0, 0>> = sum
              /\ PushedFrame.duration = FirstRun(moof.traf[ti])[ei].duration]_vars

\* C13 amended: the timestamp is that number modulo 2^32.
C13_TimestampIsLow32OfAccumulatedPlusCts ==
  /\ []AccumulatedIsBasePlusDurations
  /\ [][FramePushed =>
          LET sum == TimeOfEntry(moof.traf[ti], ei)
              ts == PushedFrame.timestamp
          IN  /\ ts # None
              /\ ts[1] = <<sum[1], sum[2]>>
              /\ PushedFrame.duration = FirstRun(moof.traf[ti])[ei].duration]_vars

\* a track fragment with base decode time 2^32 + 0xFFFFFFFE gave two frames,
\* the second after a duration of 4 and with a composition-time offset of 1;
\* the next track fragment, without tfdt, started from 0 again
C13_Witness ==
  /\ Succeeded
  /\ \E j \in PairedIdx(payload) : MoofBefore(payload, j) = Moof(<<tA3, tV5>>)
  /\ [i \in 1..2 |-> result.audio_frames[i].timestamp]
       = <<Some(<<65534, 65535>>), Some(<<3, 0>>)>>
  /\ result.audio_frames[2].duration = Some(4)
  /\ result.video_frames[1].timestamp = Some(<<0, 0>>)

\* read_from has decoded one more box, of type ty
BoxRead(ty) ==
  /\ pc = "scan"
  /\ Len(payload') = Len(payload) + 1
  /\ Last(payload').type = ty
ExtractorEntered == pc = "scan" /\ pc' = "traf"
\* the position of the moof an mdat at position j is paired with
MoofIdxBefore(p, j) ==
  CHOOSE i \in 1..(j - 1) :
    /\ p[i].type = "moof"
    /\ \A k \in (i + 1)..(j - 1) : p[k].type # "moof"

\* C14: the extractor is entered only with the pending moof and the mdat
\* just read, the first mdat after that moof with no moof in between, and
\* the pending slot is empty from then on, so that no moof is handed over
\* twice and no mdat serves two moofs; a box of another type leaves the
\* pending moof as it is.
C14_PairingIsOneToOne ==
  /\ [][ExtractorEntered =>
          /\ BoxRead("mdat")
          /\ current_moof # None
          /\ moof' = current_moof[1]
          /\ mdat_data' = Last(payload').data
          /\ Len(payload') \in PairedIdx(payload')
          /\ moof' = payload'[MoofIdxBefore(payload', Len(payload'))].moof
          /\ \A k \in (MoofIdxBefore(payload', Len(payload')) + 1)..Len(payload) :
               payload[k].type = "other"
          /\ current_moof' = None]_vars
  /\ [][(BoxRead("mdat") /\ current_moof # None) => ExtractorEntered]_vars
  /\ [](InExtractor => current_moof = None)
  /\ [][(InExtractor /\ pc' = "scan") => current_moof' = None]_vars
  /\ [](\A j1, j2 \in PairedIdx(payload) :
          j1 # j2 => MoofIdxBefore(payload, j1) # MoofIdxBefore(payload, j2))
  /\ [][BoxRead("other") => (current_moof' = current_moof /\ pc' = "scan")]_vars

\* another box stood between the moof and its mdat, and the mdat that
\* followed the pair found the slot empty and gave no frame
C14_Witness ==
  /\ Succeeded
  /\ payload = <<MoofBox(Moof(<<tV5>>)), OtherBox, MdatBox(idr), MdatBox(idr \o slice)>>
  /\ Len(result.video_frames) = 1
  /\ result.video_frames[1].data = idr
  /\ result.audio_frames = <<>>

\* read_from fails to decode a next box
DecodeFailed == pc = "scan" /\ pc' = "done"

\* C15: when read_from fails, at the end of the buffer or at bytes it cannot
\* decode, the scan stops and parse_segment returns Ok with the frames of
\* the pairs completed before; the failure never comes out as an error.
C15_DecodeFailureReturnsFramesSoFar ==
  /\ [][DecodeFailed =>
          /\ ending' \in {"eof", "malformed"}
          /\ payload' = payload
          /\ result' = Ok(video_frames, audio_frames)]_vars
  /\ []((Returned /\ ending # "none") =>
          /\ result.tag = "Ok"
          /\ SamplesOf(result.video_frames) = RefSamples(payload, TRUE)
          /\ SamplesOf(result.audio_frames) = RefSamples(payload, FALSE))
  /\ []((Returned /\ result.tag # "Ok") => ending = "none")

\* undecodable bytes followed a fragment, and the call returned its video
\* and audio frames
C15_Witness ==
  /\ Succeeded
  /\ ending = "malformed"
  /\ Len(payload) < MaxBoxes
  /\ Cardinality(PairedIdx(payload)) = 1
  /\ Len(result.video_frames) = 1
  /\ Len(result.audio_frames) = 1

\* C16: when read_from fails while a moof has been read and is still pending
\* its mdat, parse_segment returns an error and not a successful result.
C16_PendingDecodeFailureIsError ==
  (Returned /\ ending # "none" /\ current_moof # None) => result.tag = "Err"

\* the while loop of is_keyframe_sample takes another turn
NalLoopAgain == pc = "nal" /\ pc' = "nal"
\* the while-let of parse_segment takes another turn
ScanAgain == pc = "scan" /\ pc' \in {"scan", "traf"}

\* C17: every call returns; each turn of the NAL-unit loop that does not end
\* it moves the offset forward by the 4 length bytes and a unit length of at
\* least 1, never past the end of the sample, and each turn of the box loop
\* consumes one more box of the payload.
C17_EveryScanTerminates ==
  /\ <>Returned
  /\ [][NalLoopAgain =>
          /\ offset' >= offset + 5
          /\ offset' <= Len(sample_data)]_vars
  /\ [](pc = "nal" => offset <= Len(sample_data))
  /\ [][ScanAgain => Len(payload') = Len(payload) + 1]_vars

\* parse_segment returned after the last box of the longest payload, and the
\* classifier had gone through a slice unit to the end of the sample
C17_Witness ==
  /\ Succeeded
  /\ mode = "scan"
  /\ Len(payload) = MaxBoxes
  /\ sample_data = slice
  /\ offset = Len(sample_data)
  /\ result.video_frames # <<>>

\* a length prefix stands at the start of s and declares more than is left
Overruns(s) == Len(s) >= 4 /\ 4 + DeclaredLen(s) > Len(s)
\* the complete units at the start of s, up to the end of s, to bytes too
\* few for a length prefix, or to a unit that overruns
RECURSIVE CompleteUnits(_)
CompleteUnits(s) ==
  IF Len(s) < 4 \/ Overruns(s) THEN <<>>
  ELSE <<SubSeq(s, 5, 4 + DeclaredLen(s))>>
         \o CompleteUnits(SubSeq(s, 5 + DeclaredLen(s), Len(s)))
\* what is left of s after them
RECURSIVE AfterCompleteUnits(_)
AfterCompleteUnits(s) ==
  IF Len(s) < 4 \/ Overruns(s) THEN s
  ELSE AfterCompleteUnits(SubSeq(s, 5 + DeclaredLen(s), Len(s)))
\* unit i is an IDR unit (H.264) or an IRAP unit (H.265); the H.265 type is
\* bits 1..6 of the first header byte
IsIdrOrIrap(us, i) ==
  /\ us[i] # <<>>
  /\ IF hevc THEN (us[i][1] \div 2) % 64 \in 16..21 ELSE us[i][1] % 32 = 5
OneVideoFrameReturned ==
  /\ result.tag = "Ok"
  /\ Len(result.video_frames) = 1
  /\ result.audio_frames = <<>>

\* C18 as stated: a video sample whose complete units are followed by a unit
\* that overruns is a keyframe exactly when one of the complete units is an
\* IDR/IRAP unit; a video sample shorter than 5 bytes or without a complete
\* unit gives a frame that is not a keyframe; none of them fails the call.
C18_OverrunDecidedByCompleteUnits ==
  (Returned /\ PairedIdx(payload) # {}) =>
    /\ OneVideoFrameReturned
    /\ LET f == result.video_frames[1]
           us == CompleteUnits(f.data)
       IN  /\ Overruns(AfterCompleteUnits(f.data))
                => (f.is_keyframe <=> \E k \in 1..Len(us) : IsIdrOrIrap(us, k))
           /\ (Len(f.data) < 5 \/ us = <<>>) => ~f.is_keyframe

\* C18 amended: ... exactly when one of the complete units is an IDR/IRAP
\* unit and no unit before that unit has declared length 0 ...
C18_OverrunDecidedByUnitsBeforeEmptyUnit ==
  (Returned /\ PairedIdx(payload) # {}) =>
    /\ OneVideoFrameReturned
    /\ LET f == result.video_frames[1]
           us == CompleteUnits(f.data)
       IN  /\ Overruns(AfterCompleteUnits(f.data))
                => (f.is_keyframe <=>
                      \E k \in 1..Len(us) :
                        IsIdrOrIrap(us, k) /\ NoEmptyUnitBefore(us, k))
           /\ (Len(f.data) < 5 \/ us = <<>>) => ~f.is_keyframe

\* H.264: a slice unit, then a unit declaring 2 bytes of which one is
\* there, an IDR byte: the frame is returned and is not a keyframe
C18_Witness ==
  /\ Succeeded
  /\ ~hevc
  /\ Len(result.video_frames) = 1
  /\ result.video_frames[1].data = slice \o <<0, 0, 0, 2, 101>>
  /\ ~result.video_frames[1].is_keyframe

\* C19: whatever moof the decoder hands over, the call ends with Ok or with
\* an error value; a track fragment without any trun box gives an error
\* value and does not abort the call.
C19_ExtractorReturnsOkOrErr ==
  Returned => result.tag \in {"Ok", "Err"}

\* C20: for every sample and both codec modes is_keyframe_sample reads only
\* bytes of the sample: no index it uses is sample.len() or more, so it
\* never panics; it reads a length prefix only when all four bytes are
\* there and a unit header only when it lies inside the sample.
C20_ClassifierReadsInsideSample ==
  /\ [](result.tag # "Panic")
  /\ [][(pc = "nal" /\ offset' # offset) => offset + 3 < Len(sample_data)]_vars
  /\ [][(pc = "nal" /\ is_keyframe') =>
          offset + (IF hevc THEN 5 ELSE 4) < Len(sample_data)]_vars
  /\ [](pc = "done" => (result = Running /\ offset <= Len(sample_data)))

\* H.265: the last unit of the sample has one byte, the last byte of the
\* sample; the classifier did not read a second header byte and returned
C20_Witness ==
  /\ mode = "classify"
  /\ pc = "done"
  /\ hevc
  /\ sample_data = NalUnit(<<1, 1>>) \o NalUnit(<<39>>)
  /\ offset = Len(sample_data)
  /\ ~is_keyframe

\* every frame the call holds or has returned
FramesHeld ==
  LET held == video_frames \o audio_frames
      given == IF result.tag = "Ok"
                 THEN result.video_frames \o result.audio_frames ELSE <<>>
  IN  {held[i] : i \in 1..Len(held)} \cup {given[i] : i \in 1..Len(given)}
\* (base + earlier durations + cts) mod 2^32 of entry n of track fragment t,
\* from the low 32 bits of the base decode time alone
Low32TimeOfEntry(t, n) ==
  Low32Plus(<<BaseTime(t)[1], BaseTime(t)[2]>>,
            TimeBefore(t, n)
              + (IF FirstRun(t)[n].cts # None THEN FirstRun(t)[n].cts[1] ELSE 0))
\* a is the smaller of two 64-bit numbers
Below64(a, b) ==
  \E k \in 1..4 : a[k] < b[k] /\ \A j \in (k + 1)..4 : a[j] = b[j]
\* base decode time + earlier durations + the duration or the composition
\* offset of entry n of track fragment t is 2^64 or more
LeavesU64(t, n) ==
  LET e == FirstRun(t)[n]
      added == (IF e.duration # None THEN {e.duration[1]} ELSE {})
                 \cup (IF e.cts # None THEN {e.cts[1]} ELSE {})
  IN  \E x \in added :
        Below64(Plus64(AccumulatedBefore(t, n), x), AccumulatedBefore(t, n))
TimeErrors == {"No entries in TRUN", "exceeds mdat data length"}

\* C21: the timestamp of every frame is present and is (base decode time +
\* durations of earlier entries + cts) mod 2^32; the accumulated decode time
\* keeps all 64 bits from one entry to the next; no error value comes from a
\* timestamp, and the call aborts on a time addition only in a build with
\* overflow checks and only when the sum is 2^64 or more, so that a base
\* decode time of 2^32 or more gives a wrapped timestamp.
C21_TimestampIsLow32Of64BitSum ==
  /\ [](\A f \in FramesHeld : f.timestamp # None)
  /\ [][FramePushed =>
          PushedFrame.timestamp = Some(Low32TimeOfEntry(moof.traf[ti], ei))]_vars
  /\ [](pc \in {"entry", "nal", "push"} =>
          /\ <<accumulated_time[3], accumulated_time[4]>>
               = <<AccumulatedBefore(moof.traf[ti], ei)[3],
                   AccumulatedBefore(moof.traf[ti], ei)[4]>>
          /\ as_u32(accumulated_time)
               = Low32Plus(<<BaseTime(moof.traf[ti])[1], BaseTime(moof.traf[ti])[2]>>,
                           TimeBefore(moof.traf[ti], ei)))
  /\ [](result.tag = "Err" => result.msg.text \in TimeErrors)
  /\ []((result.tag = "Panic" /\ result.msg = "attempt to add with overflow") =>
          (overflow_checks /\ LeavesU64(moof.traf[ti], ei)))

\* a build with overflow checks: a track fragment with base decode time
\* 2^32 + 0xFFFFFFFE and two entries of duration 4 gave the timestamps
\* 0xFFFFFFFE and 3 and no error, and the decode time ended at 2 * 2^32 + 6
C21_Witness ==
  /\ Succeeded
  /\ overflow_checks
  /\ moof = Moof(<<tA3>>)
  /\ [i \in 1..2 |-> result.audio_frames[i].timestamp]
       = <<Some(<<65534, 65535>>), Some(<<3, 0>>)>>
  /\ accumulated_time = <<6, 0, 2, 0>>
====
